---- MODULE Spec2Model ----
(***************************************************************************)
(* Line-addressed file editing of the void workbench: the line indexer     *)
(* (LineNumberService), the directive parsers (parseRawEdits,              *)
(* parseRawInsertFileBlocks, unescapeXml), and the two tool handlers       *)
(* validateParams / callTool of replace_file_blocks and insert_file_blocks.*)
(*                                                                         *)
(* A text is a sequence of one-character strings; "\n" is the line break.  *)
(* A JavaScript value that may be undefined is a record tagged by its      *)
(* typeof.                                                                 *)
(***************************************************************************)
EXTENDS Integers, Sequences, FiniteSets, TLC

NL == "\n"

DigitChars == <<"0", "1", "2", "3", "4", "5", "6", "7", "8", "9">>

IsDigit(ch) == \E k \in 1..10 : DigitChars[k] = ch

DigitVal(ch) == (CHOOSE k \in 1..10 : DigitChars[k] = ch) - 1

Min(a, b) == IF a <= b THEN a ELSE b

(***************************************************************************)
(* JavaScript string primitives                                            *)
(***************************************************************************)

\* s.startsWith(p)
StartsWith(s, p) == Len(p) <= Len(s) /\ SubSeq(s, 1, Len(p)) = p

\* s.indexOf(p) + 1: the 1-based place of the first occurrence, 0 when absent.
\* The empty pattern is found at the start.
IndexOf(s, p) ==
  LET hits == {i \in 1..(Len(s) - Len(p) + 1) : SubSeq(s, i, i + Len(p) - 1) = p}
  IN IF hits = {} THEN 0 ELSE CHOOSE i \in hits : \A j \in hits : i <= j

\* s.split('\n')
RECURSIVE Split(_)
Split(s) ==
  LET i == IndexOf(s, <<NL>>)
  IN IF i = 0 THEN <<s>>
     ELSE <<SubSeq(s, 1, i - 1)>> \o Split(SubSeq(s, i + 1, Len(s)))

\* lines.join('\n')
RECURSIVE Join(_)
Join(lines) ==
  IF Len(lines) = 0 THEN <<>>
  ELSE IF Len(lines) = 1 THEN lines[1]
  ELSE lines[1] \o <<NL>> \o Join(Tail(lines))

\* n.toString() for n >= 0
RECURSIVE ToStr(_)
ToStr(n) ==
  IF n < 10 THEN <<DigitChars[n + 1]>>
  ELSE ToStr(n \div 10) \o <<DigitChars[(n % 10) + 1]>>

\* s.padStart(w, '0')
RECURSIVE PadStart(_, _)
PadStart(s, w) == IF Len(s) >= w THEN s ELSE PadStart(<<"0">> \o s, w)

\* parseInt(s, 10) of a string of digits
RECURSIVE ParseInt(_)
ParseInt(s) ==
  IF Len(s) = 0 THEN 0
  ELSE 10 * ParseInt(SubSeq(s, 1, Len(s) - 1)) + DigitVal(s[Len(s)])

\* /^\d+$/.test(s)
AllDigits(s) == Len(s) >= 1 /\ \A i \in 1..Len(s) : IsDigit(s[i])

\* The grave accent (backtick) character
Grave == "grave"

\* The replacement text of String.prototype.replace (GetSubstitution) for a
\* string pattern: $$ is a dollar, $& the matched text, $ with a grave accent
\* the text before the match, $' the text after it; there are no capture
\* groups, so any other $ stays as written.
RECURSIVE GetSubstitution(_, _, _, _)
GetSubstitution(repl, matched, before, after) ==
  IF Len(repl) = 0 THEN <<>>
  ELSE IF repl[1] = "$" /\ Len(repl) >= 2 /\ repl[2] \in {"$", "&", Grave, "'"}
  THEN (CASE repl[2] = "$" -> <<"$">>
          [] repl[2] = "&" -> matched
          [] repl[2] = Grave -> before
          [] repl[2] = "'" -> after)
       \o GetSubstitution(SubSeq(repl, 3, Len(repl)), matched, before, after)
  ELSE <<repl[1]>> \o GetSubstitution(Tail(repl), matched, before, after)

\* s.replace(pattern, replacement) with a string pattern: the first occurrence
\* only; s itself when the pattern does not occur.
JsReplace(s, pattern, repl) ==
  LET i == IndexOf(s, pattern)
  IN IF i = 0 THEN s
     ELSE LET before == SubSeq(s, 1, i - 1)
              after == SubSeq(s, i + Len(pattern), Len(s))
          IN before \o GetSubstitution(repl, pattern, before, after) \o after

\* s.replace(/pattern/g, replacement) for a literal pattern and a replacement
\* without $: every occurrence, left to right, never rescanning what it wrote.
RECURSIVE ReplaceAll(_, _, _)
ReplaceAll(s, pattern, repl) ==
  LET i == IndexOf(s, pattern)
  IN IF i = 0 THEN s
     ELSE SubSeq(s, 1, i - 1) \o repl
          \o ReplaceAll(SubSeq(s, i + Len(pattern), Len(s)), pattern, repl)

\* s.replace(/^\n+|\n+$/g, '')
RECURSIVE TrimNewlines(_)
TrimNewlines(s) ==
  IF Len(s) > 0 /\ s[1] = NL THEN TrimNewlines(Tail(s))
  ELSE IF Len(s) > 0 /\ s[Len(s)] = NL THEN TrimNewlines(SubSeq(s, 1, Len(s) - 1))
  ELSE s

(***************************************************************************)
(* JavaScript values that may be undefined                                 *)
(***************************************************************************)

JsUndefined == [t |-> "undefined"]

JsNum(n) == [t |-> "number", v |-> n]

JsStr(s) == [t |-> "string", v |-> s]

\* obj.field of an object that may lack the field
Field(obj, f) == IF f \in DOMAIN obj THEN obj[f] ELSE JsUndefined

\* An options object given no field
NoOptions == <<>>

(***************************************************************************)
(* LineNumberService                                                       *)
(***************************************************************************)

IsSpace(ch) == ch \in {" ", "\t", "\n", "\r"}

\* content.replace(/\r\n/g, '\n')
NormalizeEol(content) == ReplaceAll(content, <<"\r", "\n">>, <<NL>>)

\* getLineCount counting the empty line after a final line break
getLineCountWithFinalLine(content) ==
  IF Len(content) = 0 THEN 0 ELSE Len(Split(NormalizeEol(content)))

\* LineNumberService.getLineCount
getLineCount(content) ==
  IF Len(content) = 0 THEN 0
  ELSE LET lines == Split(NormalizeEol(content))
       IN IF Len(lines) > 0 /\ lines[Len(lines)] = <<>> THEN Len(lines) - 1
          ELSE Len(lines)

\* The marker [formattedNumber] of line currentLine
ExpectedPrefix(currentLine, padLength) ==
  <<"[">> \o PadStart(ToStr(currentLine), padLength) \o <<"]">>

\* LineNumberService.addLineNumbers(content, options); options may hold
\* startAt, padding (a number; absent means 'auto') and excludeEmptyLines.
addLineNumbers(content, options) ==
  IF Len(content) = 0 THEN content
  ELSE
    LET startAt == IF "startAt" \in DOMAIN options THEN options.startAt ELSE 1
        excludeEmptyLines ==
          IF "excludeEmptyLines" \in DOMAIN options
          THEN options.excludeEmptyLines ELSE FALSE
        lines == Split(NormalizeEol(content))
        maxLineNumber == startAt + Len(lines) - 1
        padLength == IF "padding" \in DOMAIN options THEN options.padding
                     ELSE Len(ToStr(maxLineNumber))
        numbered(index) ==
          LET line == lines[index]
              expectedPrefix == ExpectedPrefix(startAt + index - 1, padLength)
          IN IF excludeEmptyLines /\ \A k \in 1..Len(line) : IsSpace(line[k])
             THEN line
             ELSE IF StartsWith(line, expectedPrefix) THEN line
             ELSE expectedPrefix \o line
    IN Join([index \in 1..Len(lines) |-> numbered(index)])

\* One match of /^\[\d+\](\s*)/ at the start of a line, replaced by '$1': the
\* bracketed number goes, the white space after it stays.
StripMarker(line) ==
  IF Len(line) >= 3 /\ line[1] = "["
  THEN LET closes == {k \in 3..Len(line) :
                        line[k] = "]" /\ \A j \in 2..(k - 1) : IsDigit(line[j])}
       IN IF closes = {} THEN line
          ELSE SubSeq(line, (CHOOSE k \in closes : TRUE) + 1, Len(line))
  ELSE line

\* LineNumberService.removeFixedLineNumbers: the pattern is global and
\* multi-line, so it is tried once at the start of every line.
removeFixedLineNumbers(content) ==
  IF Len(content) = 0 THEN content
  ELSE LET lines == Split(content)
       IN Join([k \in 1..Len(lines) |-> StripMarker(lines[k])])

\* LineNumberService.getContentFragment(content, startLine, endLine) with the
\* default options (no numbering, no trimming)
getContentFragment(content, startLine, endLine) ==
  IF Len(content) = 0 THEN content
  ELSE LET s == IF startLine < 1 THEN 1 ELSE startLine
           e == IF endLine < s THEN s ELSE endLine
           lines == Split(NormalizeEol(content))
       IN Join(SubSeq(lines, s, Min(e, Len(lines))))

(***************************************************************************)
(* The text model of the editor (external to the repository)               *)
(***************************************************************************)

\* model.getLineCount(): one more than the number of line breaks
ModelLineCount(content) == Len(Split(content))

(***************************************************************************)
(* Directive parsers (xmlHelper).  The directive text is kept as the       *)
(* sequence of its <edit> segments, each a record of the tagged fields it  *)
(* holds: the value of a field is the text between its tags.               *)
(***************************************************************************)

\* unescapeXml: the replacements, each global, in the order of the source.
\* The first two of the source replace < by < and > by >.
unescapeXml(xml) ==
  LET r1 == ReplaceAll(xml, <<"&", "a", "m", "p", ";">>, <<"&">>)
      r2 == ReplaceAll(r1, <<"&", "q", "u", "o", "t", ";">>, <<"\"">>)
      r3 == ReplaceAll(r2, <<"&", "a", "p", "o", "s", ";">>, <<"'">>)
      r4 == ReplaceAll(r3, <<"&", "l", "t", ";">>, <<"<">>)
      r5 == ReplaceAll(r4, <<"&", "g", "t", ";">>, <<">">>)
      r6 == ReplaceAll(r5, <<"&", "#", "1", "0">>, <<NL>>)
      r7 == ReplaceAll(r6, <<"&", "#", "1", "3">>, <<"\r">>)
      r8 == ReplaceAll(r7, <<"&", "#", "x", "2", "7", ";">>, <<"'">>)
  IN ReplaceAll(r8, <<"&", "#", "x", "9", ";">>, <<"\t">>)

\* The outcome of a call that threw: the kind of the error, the numbers its
\* message holds, and the directive (1-based, 0 for none) whose processing
\* threw it.
Failure(kind, info, at) == [kind |-> kind, info |-> info, at |-> at]

Ok == [kind |-> "ok", info |-> <<>>, at |-> 0]

Pending == [kind |-> "pending", info |-> <<>>, at |-> 0]

\* /<original_line_range\b[^>]*>(\d+):(\d+)<\/original_line_range\b[^>]*>/
LineRangeMatch(block) ==
  IF "original_line_range" \notin DOMAIN block THEN <<>>
  ELSE LET v == block.original_line_range
           i == IndexOf(v, <<":">>)
       IN IF i = 0 THEN <<>>
          ELSE LET a == SubSeq(v, 1, i - 1)
                   b == SubSeq(v, i + 1, Len(v))
               IN IF AllDigits(a) /\ AllDigits(b) THEN <<a, b>> ELSE <<>>

\* The text of <new_content>, unescaped; '' when the segment has none
NewContentOf(block) ==
  IF "new_content" \in DOMAIN block THEN unescapeXml(block.new_content) ELSE <<>>

\* parseRawEdits: [ok, edits] or [ok, error]
parseRawEdits(xmlString) ==
  IF Len(xmlString) = 0
  THEN [ok |-> FALSE, error |-> Failure("MalformedDirectiveBatch", <<>>, 0)]
  ELSE LET bad == {i \in 1..Len(xmlString) : LineRangeMatch(xmlString[i]) = <<>>}
       IN IF bad # {}
          THEN [ok |-> FALSE,
                error |-> Failure("MalformedDirectiveBatch",
                                  <<CHOOSE i \in bad : \A j \in bad : i <= j>>, 0)]
          ELSE [ok |-> TRUE,
                edits |-> [i \in 1..Len(xmlString) |->
                  [startLine |-> JsNum(ParseInt(LineRangeMatch(xmlString[i])[1])),
                   endLine |-> JsNum(ParseInt(LineRangeMatch(xmlString[i])[2])),
                   newContent |-> TrimNewlines(NewContentOf(xmlString[i]))]]]

\* /<insert_after_line\b[^>]*>(\d+)<\/insert_after_line\b[^>]*>/
LineIndexMatch(block) ==
  IF "insert_after_line" \in DOMAIN block /\ AllDigits(block.insert_after_line)
  THEN <<block.insert_after_line>> ELSE <<>>

\* parseRawInsertFileBlocks: [ok, edits] or [ok, error].  An item holds
\* insert_after_line and new_content, and nothing else.
parseRawInsertFileBlocks(xmlString) ==
  IF Len(xmlString) = 0
  THEN [ok |-> FALSE, error |-> Failure("MalformedDirectiveBatch", <<>>, 0)]
  ELSE LET bad == {i \in 1..Len(xmlString) : LineIndexMatch(xmlString[i]) = <<>>}
       IN IF bad # {}
          THEN [ok |-> FALSE,
                error |-> Failure("MalformedDirectiveBatch",
                                  <<CHOOSE i \in bad : \A j \in bad : i <= j>>, 0)]
          ELSE [ok |-> TRUE,
                edits |-> [i \in 1..Len(xmlString) |->
                  [insert_after_line |-> JsNum(ParseInt(LineIndexMatch(xmlString[i])[1])),
                   new_content |-> TrimNewlines(NewContentOf(xmlString[i]))]]]

(***************************************************************************)
(* validateParams (ToolsService)                                           *)
(***************************************************************************)

JsNull == [t |-> "null"]

\* The leading digits of a text (what Number.parseInt reads of it)
RECURSIVE LeadingDigits(_)
LeadingDigits(s) ==
  IF Len(s) > 0 /\ IsDigit(s[1]) THEN <<s[1]>> \o LeadingDigits(Tail(s)) ELSE <<>>

\* isFalsy: !u || u === 'null' || u === 'undefined'
isFalsy(u) ==
  \/ u.t \in {"undefined", "null"}
  \/ u.t = "number" /\ u.v = 0
  \/ u.t = "string" /\ u.v \in {<<>>, <<"n", "u", "l", "l">>,
                                <<"u", "n", "d", "e", "f", "i", "n", "e", "d">>}

\* validateNumber(numStr, opts): a number, or opts.default
validateNumber(numStr, default) ==
  IF numStr.t = "number" THEN numStr
  ELSE IF isFalsy(numStr) THEN default
  ELSE IF numStr.t = "string"
  THEN IF LeadingDigits(numStr.v) = <<>> THEN default
       ELSE JsNum(ParseInt(LeadingDigits(numStr.v)))
  ELSE default

\* validateParams.replace_file_blocks: [ok, params] or [ok, error]
validateReplaceFileBlocks(params) ==
  LET n == validateNumber(Field(params, "original_line_count"), JsNull)
      originalContentTotalLineCount == IF n.t = "number" THEN n.v ELSE 0
  IN IF "edits" \notin DOMAIN params
     THEN [ok |-> FALSE, error |-> Failure("NoEdits", <<>>, 0)]
     ELSE LET parsed == parseRawEdits(params.edits)
          IN IF ~parsed.ok THEN parsed
             ELSE [ok |-> TRUE,
                   params |->
                     [original_line_count |-> originalContentTotalLineCount,
                      edits |-> [i \in 1..Len(parsed.edits) |->
                        [startLine |-> parsed.edits[i].startLine,
                         endLine |-> parsed.edits[i].endLine,
                         newContent |-> unescapeXml(parsed.edits[i].newContent)]]]]

\* validateParams.insert_file_blocks: [ok, params] or [ok, error]
validateInsertFileBlocks(params) ==
  LET n == validateNumber(Field(params, "original_line_count"), JsNull)
      originalContentTotalLineCount == IF n.t = "number" THEN n.v ELSE 0
  IN IF "edits" \notin DOMAIN params
     THEN [ok |-> FALSE, error |-> Failure("NoEdits", <<>>, 0)]
     ELSE LET parsed == parseRawInsertFileBlocks(params.edits)
              item(edit) ==
                LET sl == validateNumber(Field(edit, "line_index"), JsNum(0))
                IN [line_index |-> IF sl.t # "null" /\ sl.v >= 1 THEN sl ELSE JsNum(1),
                    before_after |-> Field(edit, "before_after"),
                    new_content |-> unescapeXml(edit.new_content)]
          IN IF ~parsed.ok THEN parsed
             ELSE [ok |-> TRUE,
                   params |->
                     [original_line_count |-> originalContentTotalLineCount,
                      edits |-> [i \in 1..Len(parsed.edits) |-> item(parsed.edits[i])]]]

(***************************************************************************)
(* callTool.replace_file_blocks and callTool.insert_file_blocks: the       *)
(* synchronous part between the first awaits and the await before the      *)
(* write-back                                                              *)
(***************************************************************************)

\* typeof x === 'number' ? x : otherwise
NumberOr(x, otherwise) == IF x.t = "number" THEN x.v ELSE otherwise

\* edits.map((edit, index) => ({start, end, index}))
RangesOf(edits, lineCount) ==
  [k \in 1..Len(edits) |->
    [start |-> NumberOr(edits[k].startLine, 1),
     end |-> NumberOr(edits[k].endLine, lineCount),
     index |-> k - 1]]

\* The ranges left in submission order
SortByStartSkipped(ranges) == ranges

\* ranges.sort((a, b) => a.start - b.start): the sort is stable
RECURSIVE SortByStart(_)
SortByStart(ranges) ==
  IF Len(ranges) <= 1 THEN ranges
  ELSE LET front == SortByStart(SubSeq(ranges, 1, Len(ranges) - 1))
           r == ranges[Len(ranges)]
           keep == {k \in 1..Len(front) : front[k].start <= r.start}
           n == Cardinality(keep)
       IN SubSeq(front, 1, n) \o <<r>> \o SubSeq(front, n + 1, Len(front))

\* The loop over adjacent sorted ranges: the numbers of the first overlap's
\* message (prev.index, prev.start, prev.end, curr.index, curr.start,
\* curr.end), or <<>> when no adjacent pair overlaps.
FirstOverlap(edits, lineCount) ==
  LET ranges == SortByStart(RangesOf(edits, lineCount))
      hits == {i \in 2..Len(ranges) : ranges[i].start <= ranges[i - 1].end}
  IN IF hits = {} THEN <<>>
     ELSE LET i == CHOOSE h \in hits : \A j \in hits : h <= j
          IN <<ranges[i - 1].index, ranges[i - 1].start, ranges[i - 1].end,
               ranges[i].index, ranges[i].start, ranges[i].end>>

\* The range test of one directive (source line 558)
RangeInvalid(safeStartLine, safeEndLine, lineCount) ==
  safeStartLine < 1 \/ safeEndLine > lineCount \/ safeStartLine > safeEndLine

\* The substitution of one directive into the working buffer
SubstituteRange(beingApply, original, safeStartLine, safeEndLine, newContent) ==
  JsReplace(beingApply,
            getContentFragment(original, safeStartLine, safeEndLine),
            newContent)

\* for (const edit of edits) of replace_file_blocks, from directive i on:
\* the outcome and the working buffer.
RECURSIVE ReplaceLoop(_, _, _, _, _)
ReplaceLoop(edits, i, lineCount, original, beingApply) ==
  IF i > Len(edits) THEN [result |-> Ok, buf |-> beingApply]
  ELSE
    LET safeStartLine == NumberOr(edits[i].startLine, 1)
        safeEndLine == NumberOr(edits[i].endLine, lineCount)
        overlap == FirstOverlap(edits, lineCount)
    IN IF RangeInvalid(safeStartLine, safeEndLine, lineCount)
       THEN [result |-> Failure("OutOfBounds", <<lineCount>>, i), buf |-> beingApply]
       ELSE IF overlap # <<>>
       THEN [result |-> Failure("OverlappingEdits", overlap, i), buf |-> beingApply]
       ELSE ReplaceLoop(edits, i + 1, lineCount, original,
              SubstituteRange(beingApply, original, safeStartLine, safeEndLine,
                              edits[i].newContent))

\* The text that replaces the anchor line of an insertion
InsertionText(fragment, before_after, new_content) ==
  IF before_after = JsStr("before")
  THEN new_content \o <<NL>> \o fragment
  ELSE fragment \o <<NL>> \o new_content

\* for (const edit of edits) of insert_file_blocks, from directive i on
RECURSIVE InsertLoop(_, _, _, _, _)
InsertLoop(edits, i, lineCount, original, beingApply) ==
  IF i > Len(edits) THEN [result |-> Ok, buf |-> beingApply]
  ELSE
    LET safe_line_index == NumberOr(edits[i].line_index, 1)
        fragment == getContentFragment(original, safe_line_index, safe_line_index)
    IN IF safe_line_index < 1 \/ safe_line_index > lineCount
       THEN [result |-> Failure("OutOfBounds", <<lineCount>>, i), buf |-> beingApply]
       ELSE InsertLoop(edits, i + 1, lineCount, original,
              JsReplace(beingApply, fragment,
                        InsertionText(fragment, edits[i].before_after,
                                      edits[i].new_content)))

\* The directives processed before the declared count is compared
ApplyDirectivesCountLast(tool, params, content, stream) ==
  LET lineCount == ModelLineCount(content)
      original == addLineNumbers(content, NoOptions)
      out == IF tool = "replace_file_blocks"
             THEN ReplaceLoop(params.edits, 1, lineCount, original, original)
             ELSE InsertLoop(params.edits, 1, lineCount, original, original)
  IN IF out.result # Ok THEN out
     ELSE IF params.original_line_count # lineCount
     THEN [result |-> Failure("StaleSnapshot",
                              <<lineCount, params.original_line_count>>, 0),
           buf |-> <<>>]
     ELSE IF stream = "streaming"
     THEN [result |-> Failure("Busy", <<>>, 0), buf |-> <<>>]
     ELSE out

\* Source lines 537-622 (replace) and 648-697 (insert): the staleness check,
\* the stream check, then the loop over the directives.
ApplyDirectives(tool, params, content, stream) ==
  LET lineCount == ModelLineCount(content)
      original == addLineNumbers(content, NoOptions)
  IN IF params.original_line_count # lineCount
     THEN [result |-> Failure("StaleSnapshot",
                              <<lineCount, params.original_line_count>>, 0),
           buf |-> <<>>]
     ELSE IF stream = "streaming"
     THEN [result |-> Failure("Busy", <<>>, 0), buf |-> <<>>]
     ELSE IF tool = "replace_file_blocks"
     THEN ReplaceLoop(params.edits, 1, lineCount, original, original)
     ELSE InsertLoop(params.edits, 1, lineCount, original, original)

(***************************************************************************)
(* Bounds and inputs                                                       *)
(***************************************************************************)

\* The longest file, in lines
MaxLines == 3

\* The longest batch, in directives
MaxEdits == 2

\* Callers that may have a call in flight on the one file
Callers == {1}

LineTexts == <<"a", "b", "c", "d", "e", "f", "g", "h">>

\* The file of n lines a, b, c, ... with no line break after the last
BaseFile(n) == Join([k \in 1..n |-> <<LineTexts[k]>>])

\* Every sequence of 1..n elements of S
RECURSIVE SeqsUpTo(_, _)
SeqsUpTo(S, n) ==
  IF n = 0 THEN {}
  ELSE {<<x>> : x \in S} \cup SeqsUpTo(S, n - 1)
       \cup {sq \o <<x>> : sq \in SeqsUpTo(S, n - 1), x \in S}

\* <edit><original_line_range>s:e</original_line_range>
\*       <new_content>c</new_content></edit>
RangeBlock(s, e, c) ==
  [original_line_range |-> ToStr(s) \o <<":">> \o ToStr(e), new_content |-> c]

\* <edit><insert_after_line>n</insert_after_line>
\*       <before_after>ba</before_after><new_content>c</new_content></edit>
AnchorBlock(n, ba, c) ==
  [insert_after_line |-> ToStr(n), before_after |-> ba, new_content |-> c]

\* A tool call as the model's caller submits it
Request(tool, declared, blocks) ==
  [tool |-> tool,
   params |-> [original_line_count |-> JsStr(ToStr(declared)), edits |-> blocks]]

\* A tool call whose parameters were validated elsewhere: callTool is
\* entered with them as they are
DirectCall(tool, declared, edits) ==
  [tool |-> tool, params |-> [original_line_count |-> declared, edits |-> edits]]

\* The files of n lines: a, b, c, ... and, for n > 1, the file of n - 1
\* such lines that ends with a line break (its last line is empty); for
\* n = 1 also the empty file.
FilesOfLines(n) == {BaseFile(n), IF n = 1 THEN <<>> ELSE BaseFile(n - 1) \o <<NL>>}

\* The ranges <<startLine, endLine>> tried on a file of n lines: every range
\* inside the file, and ranges that start before line 1, end after line n,
\* or end before they start.
InsideRanges(n) == {<<s, e>> : s \in 1..n, e \in 1..n} \ {<<s, e>> \in (1..n) \X (1..n) : s > e}

OutsideRanges(n) == {<<0, 1>>, <<1, n + 1>>, <<n, n + 1>>, <<2, 1>>}

\* The declared counts tried against a file of n lines
DeclaredCounts(n) == {n - 1, n, n + 1}

PlainContents == {<<"X">>}

\* Raw replace_file_blocks and insert_file_blocks calls on a file of n lines
RawRequests(n) ==
  {Request("replace_file_blocks", d, b) :
     d \in DeclaredCounts(n),
     b \in SeqsUpTo({RangeBlock(r[1], r[2], c) :
                       r \in InsideRanges(n) \cup OutsideRanges(n),
                       c \in PlainContents},
                    MaxEdits)}
  \cup
  {Request("insert_file_blocks", d, b) :
     d \in DeclaredCounts(n),
     b \in SeqsUpTo({AnchorBlock(a, ba, c) :
                       a \in 0..(n + 1), ba \in {"before", "after"},
                       c \in PlainContents},
                    MaxEdits)}

\* New contents: none, one line, two lines, and contents that hold the
\* replacement patterns $& (the match) and $ grave (the text before it)
RichContents ==
  {<<>>, <<"X">>, <<"X", NL, "Y">>, <<"$", "&">>, <<"Z", "$", Grave>>}

\* The sequences of 1..MaxEdits ranges inside a file of n lines of which no
\* two share a line, in every order
DisjointRanges(n) ==
  {rs \in SeqsUpTo(InsideRanges(n), MaxEdits) :
     \A i, j \in 1..Len(rs) : i < j => rs[i][2] < rs[j][1] \/ rs[j][2] < rs[i][1]}

\* The contents of the insertions of a batch of several
PairContents == {<<"X">>, <<"Y">>}

\* Validated calls on a file of n lines that pass the checks of callTool:
\* replacements of ranges inside the file that share no line, insertions at
\* anchors inside the file
DirectRequests(n) ==
  {DirectCall("replace_file_blocks", n,
              [i \in 1..Len(rs) |-> [startLine |-> JsNum(rs[i][1]),
                                     endLine |-> JsNum(rs[i][2]),
                                     newContent |-> cs[i]]]) :
     <<rs, cs>> \in UNION {{<<x, y>> : y \in [1..Len(x) -> RichContents]} :
                             x \in DisjointRanges(n)}}
  \cup
  {DirectCall("insert_file_blocks", n,
              <<[line_index |-> JsNum(a), before_after |-> JsStr(ba),
                 new_content |-> c]>>) :
     a \in 1..n, ba \in {"before", "after"}, c \in RichContents}
  \cup
  {DirectCall("insert_file_blocks", n, b) :
     b \in SeqsUpTo({[line_index |-> JsNum(a), before_after |-> JsStr(ba),
                      new_content |-> c] :
                       a \in 1..n, ba \in {"before", "after"},
                       c \in PairContents},
                    MaxEdits)}

(***************************************************************************)
(* The state machine: one file, its stream state, and the calls in flight  *)
(***************************************************************************)

VARIABLES
  file,         \* the content of the text model, line breaks as \n
  streamState,  \* commandBarService.getStreamState(uri)
  request,      \* per caller: the raw tool call it submits
  call,         \* per caller: where its call stands, its validated
                \* parameters, its working buffer and its outcome
  writeLog,     \* every instantlyRewriteFile so far: <<caller, newContent>>
  file0         \* the content of the file before any call

vars == <<file, streamState, request, call, writeLog, file0>>

NoParams == [original_line_count |-> 0, edits |-> <<>>]

NewCall == [pc |-> "idle", params |-> NoParams, buf |-> <<>>, result |-> Pending]

\* inputs: pairs <<content of the file, tool calls that may be made on it>>
InitWith(inputs) ==
  /\ \E input \in inputs :
       /\ file = input[1]
       /\ request \in [Callers -> input[2]]
  /\ file0 = file
  /\ streamState = "idle"
  /\ call = [c \in Callers |-> NewCall]
  /\ writeLog = <<>>

\* validateParams[toolName](rawParams)
Validate(c) ==
  /\ call[c].pc = "idle"
  /\ LET v == IF request[c].tool = "replace_file_blocks"
              THEN validateReplaceFileBlocks(request[c].params)
              ELSE validateInsertFileBlocks(request[c].params)
     IN call' = [call EXCEPT ![c] =
                   IF v.ok THEN [@ EXCEPT !.pc = "validated", !.params = v.params]
                   ELSE [@ EXCEPT !.pc = "done", !.result = v.error]]
  /\ UNCHANGED <<file, streamState, request, writeLog, file0>>

\* Apply(c) writing the working buffer back as soon as a directive throws
ApplyWritingOnFailure(c) ==
  /\ call[c].pc = "validated"
  /\ LET out == ApplyDirectives(request[c].tool, call[c].params, file, streamState)
         written == removeFixedLineNumbers(out.buf)
     IN /\ call' = [call EXCEPT ![c] =
                      IF out.result = Ok
                      THEN [@ EXCEPT !.pc = "computed", !.buf = out.buf]
                      ELSE [@ EXCEPT !.pc = "done", !.buf = out.buf,
                                     !.result = out.result]]
        /\ file' = IF out.result # Ok /\ out.buf # <<>> THEN written ELSE file
        /\ writeLog' = IF out.result # Ok /\ out.buf # <<>>
                       THEN Append(writeLog, <<c, written>>) ELSE writeLog
  /\ UNCHANGED <<streamState, request, file0>>

\* callTool[toolName](params) up to the await that precedes the write-back
Apply(c) ==
  /\ call[c].pc = "validated"
  /\ LET out == ApplyDirectives(request[c].tool, call[c].params, file, streamState)
     IN call' = [call EXCEPT ![c] =
                   IF out.result = Ok
                   THEN [@ EXCEPT !.pc = "computed", !.buf = out.buf]
                   ELSE [@ EXCEPT !.pc = "done", !.buf = out.buf,
                                  !.result = out.result]]
  /\ UNCHANGED <<file, streamState, request, writeLog, file0>>

\* After await initializeModel(uri): the second stream check
Recheck(c) ==
  /\ call[c].pc = "computed"
  /\ call' = [call EXCEPT ![c] =
                IF streamState = "streaming"
                THEN [@ EXCEPT !.pc = "done", !.result = Failure("Busy", <<>>, 0)]
                ELSE [@ EXCEPT !.pc = "prewrite"]]
  /\ UNCHANGED <<file, streamState, request, writeLog, file0>>

\* After await callBeforeApplyOrEdit(uri): strip the markers and rewrite
WriteBack(c) ==
  /\ call[c].pc = "prewrite"
  /\ LET beingApplyContent == removeFixedLineNumbers(call[c].buf)
     IN /\ file' = beingApplyContent
        /\ writeLog' = Append(writeLog, <<c, beingApplyContent>>)
  /\ call' = [call EXCEPT ![c] = [@ EXCEPT !.pc = "done", !.result = Ok]]
  /\ UNCHANGED <<streamState, request, file0>>

\* Another agent starts or stops streaming into the file
StreamChange ==
  /\ streamState' = IF streamState = "idle" THEN "streaming" ELSE "idle"
  /\ UNCHANGED <<file, request, call, writeLog, file0>>

\* callTool[toolName](params) entered with validated parameters
Invoke(c) ==
  /\ call[c].pc = "idle"
  /\ call' = [call EXCEPT ![c] =
                [@ EXCEPT !.pc = "validated", !.params = request[c].params]]
  /\ UNCHANGED <<file, streamState, request, writeLog, file0>>

\* A tool call from its raw parameters on
Next ==
  \/ \E c \in Callers : Validate(c)
  \/ \E c \in Callers : Apply(c)
  \/ \E c \in Callers : Recheck(c)
  \/ \E c \in Callers : WriteBack(c)
  \/ StreamChange

\* Raw tool calls on the files of 1..MaxLines lines
RawInputs == {<<BaseFile(n), RawRequests(n)>> : n \in 1..MaxLines}

Init == InitWith(RawInputs)

Spec == Init /\ [][Next]_vars

\* callTool alone, from validated parameters on
NextDirect ==
  \/ \E c \in Callers : Invoke(c)
  \/ \E c \in Callers : Apply(c)
  \/ \E c \in Callers : Recheck(c)
  \/ \E c \in Callers : WriteBack(c)
  \/ StreamChange

\* Typed calls on the files of 1..MaxLines lines, with and without a final
\* line break
DirectInputs ==
  UNION {{<<f, DirectRequests(n)>> : f \in FilesOfLines(n)} : n \in 1..MaxLines}

InitDirect == InitWith(DirectInputs)

SpecDirect == InitDirect /\ [][NextDirect]_vars

(***************************************************************************)
(* The tool call built with the parseRawEdits of helpers/xmlHelper.ts: an  *)
(* <edit> segment holds <startLine>, <endLine> and <newContent>            *)
(***************************************************************************)

\* /<startLine>(\d+)<\/startLine>/ (and the same for endLine): the number,
\* or null when the segment has no such field
TagNumber(block, tag) ==
  IF tag \in DOMAIN block /\ AllDigits(block[tag])
  THEN JsNum(ParseInt(block[tag])) ELSE JsNull

\* parseRawEdits of helpers/xmlHelper.ts: one item per <edit> segment, none
\* when the text holds no segment; it never throws.
parseRawEditsXmlHelper(xmlString) ==
  [i \in 1..Len(xmlString) |->
    [startLine |-> TagNumber(xmlString[i], "startLine"),
     endLine |-> TagNumber(xmlString[i], "endLine"),
     newContent |-> IF "newContent" \in DOMAIN xmlString[i]
                    THEN xmlString[i].newContent ELSE <<>>]]

\* validateParams.replace_file_blocks over that parser
validateReplaceFileBlocksXmlHelper(params) ==
  LET n == validateNumber(Field(params, "original_line_count"), JsNull)
      originalContentTotalLineCount == IF n.t = "number" THEN n.v ELSE 0
      rawEdits == IF "edits" \in DOMAIN params
                  THEN parseRawEditsXmlHelper(params.edits) ELSE <<>>
  IN IF Len(rawEdits) = 0
     THEN [ok |-> FALSE, error |-> Failure("NoEdits", <<>>, 0)]
     ELSE [ok |-> TRUE,
           params |->
             [original_line_count |-> originalContentTotalLineCount,
              edits |-> [i \in 1..Len(rawEdits) |->
                [startLine |-> rawEdits[i].startLine,
                 endLine |-> rawEdits[i].endLine,
                 newContent |-> unescapeXml(rawEdits[i].newContent)]]]]

\* <edit><startLine>s</startLine><endLine>e</endLine>
\*       <newContent>c</newContent></edit>; s or e = 0 leaves the field out
TagBlock(s, e, c) ==
  (IF s = 0 THEN <<>> ELSE [startLine |-> ToStr(s)])
  @@ (IF e = 0 THEN <<>> ELSE [endLine |-> ToStr(e)])
  @@ [newContent |-> c]

\* Raw replace_file_blocks calls in that dialect on a file of n lines: every
\* segment has its start line or not, its end line or not; also the call
\* whose text holds no segment
TaggedRequests(n) ==
  {Request("replace_file_blocks", n, b) :
     b \in {<<>>} \cup
           SeqsUpTo({TagBlock(s, e, c) :
                       s \in {0, 1, n}, e \in {0, 1, n}, c \in PlainContents},
                    MaxEdits)}

TaggedInputs == {<<BaseFile(n), TaggedRequests(n)>> : n \in 1..MaxLines}

\* validateParams.replace_file_blocks(rawParams) of that build
ValidateTagged(c) ==
  /\ call[c].pc = "idle"
  /\ LET v == validateReplaceFileBlocksXmlHelper(request[c].params)
     IN call' = [call EXCEPT ![c] =
                   IF v.ok THEN [@ EXCEPT !.pc = "validated", !.params = v.params]
                   ELSE [@ EXCEPT !.pc = "done", !.result = v.error]]
  /\ UNCHANGED <<file, streamState, request, writeLog, file0>>

NextTagged ==
  \/ \E c \in Callers : ValidateTagged(c)
  \/ \E c \in Callers : Apply(c)
  \/ \E c \in Callers : Recheck(c)
  \/ \E c \in Callers : WriteBack(c)
  \/ StreamChange

InitTagged == InitWith(TaggedInputs)

SpecTagged == InitTagged /\ [][NextTagged]_vars

(***************************************************************************)
(* The directive parsers applied on their own.  The text given to          *)
(* parseRawUpdateFileBlocks is kept as the sequence of its <operation>     *)
(* segments of type replace, delete or insert, comments removed.           *)
(***************************************************************************)

\* s.trim()
RECURSIVE Trim(_)
Trim(s) ==
  IF Len(s) > 0 /\ IsSpace(s[1]) THEN Trim(Tail(s))
  ELSE IF Len(s) > 0 /\ IsSpace(s[Len(s)]) THEN Trim(SubSeq(s, 1, Len(s) - 1))
  ELSE s

\* parseLineRange: the two numbers of <line_range start="X" end="Y"/>, or
\* the error thrown when the element is absent or X > Y
parseLineRange(input) ==
  IF ~("start" \in DOMAIN input /\ "end" \in DOMAIN input
       /\ AllDigits(input.start) /\ AllDigits(input.end))
  THEN [ok |-> FALSE]
  ELSE IF ParseInt(input.start) > ParseInt(input.end) THEN [ok |-> FALSE]
  ELSE [ok |-> TRUE, start |-> ParseInt(input.start), end |-> ParseInt(input.end)]

\* extractContent(extractXmlContent(content, 'content')) of a segment whose
\* content holds no CDATA section
ContentOf(input) ==
  IF "content" \in DOMAIN input THEN TrimNewlines(Trim(input.content)) ELSE <<>>

\* extractXmlAttribute(content, 'after') || extractXmlTag(content,
\* 'insert_after_line'), then parseInt(insertAfter || '0'), for values that
\* begin with a digit (parseInt of any other value is NaN)
InsertAfterOf(input) ==
  IF "after" \in DOMAIN input /\ input.after # <<>>
  THEN ParseInt(LeadingDigits(input.after))
  ELSE IF "insert_after_line" \in DOMAIN input /\ Trim(input.insert_after_line) # <<>>
  THEN ParseInt(LeadingDigits(Trim(input.insert_after_line)))
  ELSE 0

\* BlocksOfOperation with the two blocks of a replace in the other order:
\* the deletion first, then the insertion
BlocksOfOperationDeleteFirst(input) ==
  LET range == parseLineRange(input)
  IN CASE input.type = "replace" ->
            IF ~range.ok THEN [ok |-> FALSE]
            ELSE [ok |-> TRUE,
                  blocks |-> <<[type |-> "delete", startLine |-> range.start,
                                endLine |-> range.end],
                               [type |-> "insert", insert_after_line |-> range.start,
                                newContent |-> ContentOf(input)]>>]
       [] input.type = "delete" ->
            IF ~range.ok THEN [ok |-> FALSE]
            ELSE [ok |-> TRUE,
                  blocks |-> <<[type |-> "delete", startLine |-> range.start,
                                endLine |-> range.end]>>]
       [] input.type = "insert" ->
            [ok |-> TRUE,
             blocks |-> <<[type |-> "insert",
                           insert_after_line |-> InsertAfterOf(input),
                           newContent |-> ContentOf(input)]>>]

\* The blocks one <operation> segment is turned into, or the error it throws
BlocksOfOperation(input) ==
  LET range == parseLineRange(input)
  IN CASE input.type = "replace" ->
            IF ~range.ok THEN [ok |-> FALSE]
            ELSE [ok |-> TRUE,
                  blocks |-> <<[type |-> "insert", insert_after_line |-> range.start,
                                newContent |-> ContentOf(input)],
                               [type |-> "delete", startLine |-> range.start,
                                endLine |-> range.end]>>]
       [] input.type = "delete" ->
            IF ~range.ok THEN [ok |-> FALSE]
            ELSE [ok |-> TRUE,
                  blocks |-> <<[type |-> "delete", startLine |-> range.start,
                                endLine |-> range.end]>>]
       [] input.type = "insert" ->
            [ok |-> TRUE,
             blocks |-> <<[type |-> "insert",
                           insert_after_line |-> InsertAfterOf(input),
                           newContent |-> ContentOf(input)]>>]

\* parseRawUpdateFileBlocks, from segment i on: [ok, edits] or [ok, error]
RECURSIVE UpdateBlocksFrom(_, _, _)
UpdateBlocksFrom(xmlString, i, blocks) ==
  IF i > Len(xmlString) THEN [ok |-> TRUE, edits |-> blocks]
  ELSE LET one == BlocksOfOperation(xmlString[i])
       IN IF ~one.ok
          THEN [ok |-> FALSE, error |-> Failure("MalformedDirectiveBatch", <<>>, i)]
          ELSE UpdateBlocksFrom(xmlString, i + 1, blocks \o one.blocks)

parseRawUpdateFileBlocks(xmlString) == UpdateBlocksFrom(xmlString, 1, <<>>)

\* <operation type="t"><line_range start="s" end="e"/>
\*   <insert_after_line>a</insert_after_line><content>c</content></operation>;
\* s = 0 leaves the line range out, a = 0 the anchor
OperationBlock(t, s, e, a, c) ==
  [type |-> t, content |-> c]
  @@ (IF s = 0 THEN <<>> ELSE [start |-> ToStr(s), end |-> ToStr(e)])
  @@ (IF a = 0 THEN <<>> ELSE [insert_after_line |-> ToStr(a)])

\* A directive text handed to one of the parsers
ParserCall(parser, blocks) ==
  [tool |-> parser, params |-> [edits |-> blocks]]

\* The directive texts tried on each parser: the text with no segment, and
\* texts of 1..MaxEdits segments, well-formed or lacking their line numbers
ParserCalls ==
  {ParserCall("parseRawEdits", b) :
     b \in {<<>>} \cup
           SeqsUpTo({RangeBlock(r[1], r[2], c) :
                       r \in InsideRanges(MaxLines), c \in PlainContents}
                    \cup {[new_content |-> c] : c \in PlainContents},
                    MaxEdits)}
  \cup
  {ParserCall("parseRawInsertFileBlocks", b) :
     b \in {<<>>} \cup
           SeqsUpTo({AnchorBlock(a, ba, c) :
                       a \in 0..MaxLines, ba \in {"before", "after"},
                       c \in PlainContents}
                    \cup {[new_content |-> c] : c \in PlainContents},
                    MaxEdits)}
  \cup
  {ParserCall("parseRawUpdateFileBlocks", b) :
     b \in {<<>>} \cup
           SeqsUpTo({OperationBlock(t, r[1], r[2], 0, c) :
                       t \in {"replace", "delete"},
                       r \in InsideRanges(MaxLines) \cup {<<0, 0>>, <<2, 1>>},
                       c \in PlainContents}
                    \cup {OperationBlock("insert", 0, 0, a, c) :
                            a \in 0..MaxLines, c \in PlainContents},
                    MaxEdits)}

ParserInputs == {<<BaseFile(MaxLines), ParserCalls>>}

\* One of the parsers applied to the directive text: the call ends with the
\* directives it returned, or with the error it threw
Parse(c) ==
  /\ call[c].pc = "idle"
  /\ LET xmlString == request[c].params.edits
         parsed == CASE request[c].tool = "parseRawEdits" -> parseRawEdits(xmlString)
                     [] request[c].tool = "parseRawInsertFileBlocks" ->
                          parseRawInsertFileBlocks(xmlString)
                     [] request[c].tool = "parseRawUpdateFileBlocks" ->
                          parseRawUpdateFileBlocks(xmlString)
     IN call' = [call EXCEPT ![c] =
                   IF parsed.ok
                   THEN [@ EXCEPT !.pc = "done", !.result = Ok,
                                  !.params = [original_line_count |-> 0,
                                              edits |-> parsed.edits]]
                   ELSE [@ EXCEPT !.pc = "done", !.result = parsed.error]]
  /\ UNCHANGED <<file, streamState, request, writeLog, file0>>

\* The working lines of the applier of the primitive blocks: every line of
\* the original snapshot keeps its line number, an inserted line has 0
SnapshotLines(content) ==
  [k \in 1..Len(Split(content)) |-> [orig |-> k, text |-> Split(content)[k]]]

\* One primitive block applied: an insertion puts its content after the
\* line of the snapshot it is anchored at, a deletion removes the lines of
\* the snapshot in its range
RECURSIVE WithoutOriginals(_, _, _)
WithoutOriginals(lines, s, e) ==
  IF lines = <<>> THEN <<>>
  ELSE IF lines[1].orig >= s /\ lines[1].orig <= e /\ lines[1].orig # 0
  THEN WithoutOriginals(Tail(lines), s, e)
  ELSE <<lines[1]>> \o WithoutOriginals(Tail(lines), s, e)

ApplyUpdateBlock(lines, block) ==
  IF block.type = "delete"
  THEN WithoutOriginals(lines, block.startLine, block.endLine)
  ELSE LET at == {k \in 1..Len(lines) : lines[k].orig = block.insert_after_line}
           added == [j \in 1..Len(Split(block.newContent)) |->
                       [orig |-> 0, text |-> Split(block.newContent)[j]]]
       IN IF at = {} THEN lines
          ELSE LET k == CHOOSE x \in at : TRUE
               IN SubSeq(lines, 1, k) \o added \o SubSeq(lines, k + 1, Len(lines))

\* The primitive blocks applied in their order to the snapshot
RECURSIVE ApplyUpdateBlocksFrom(_, _, _)
ApplyUpdateBlocksFrom(lines, blocks, i) ==
  IF i > Len(blocks) THEN lines
  ELSE ApplyUpdateBlocksFrom(ApplyUpdateBlock(lines, blocks[i]), blocks, i + 1)

\* A block addresses lines of the snapshot
UpdateBlockInside(block, lineCount) ==
  IF block.type = "delete"
  THEN 1 <= block.startLine /\ block.endLine <= lineCount
  ELSE 1 <= block.insert_after_line /\ block.insert_after_line <= lineCount

\* The blocks parseRawUpdateFileBlocks returned are applied to the file and
\* the result is written back; blocks outside the file are rejected
ApplyUpdateBlocks(c) ==
  /\ call[c].pc = "done"
  /\ call[c].result = Ok
  /\ request[c].tool = "parseRawUpdateFileBlocks"
  /\ LET blocks == call[c].params.edits
         lines == ApplyUpdateBlocksFrom(SnapshotLines(file), blocks, 1)
         written == Join([k \in 1..Len(lines) |-> lines[k].text])
     IN IF \A i \in 1..Len(blocks) : UpdateBlockInside(blocks[i], ModelLineCount(file))
        THEN /\ call' = [call EXCEPT ![c] = [@ EXCEPT !.pc = "applied"]]
             /\ file' = written
             /\ writeLog' = Append(writeLog, <<c, written>>)
        ELSE /\ call' = [call EXCEPT ![c] =
                           [@ EXCEPT !.pc = "applied",
                                     !.result = Failure("OutOfBounds",
                                                        <<ModelLineCount(file)>>, 0)]]
             /\ UNCHANGED <<file, writeLog>>
  /\ UNCHANGED <<streamState, request, file0>>

NextParsers ==
  \/ \E c \in Callers : Parse(c)
  \/ \E c \in Callers : ApplyUpdateBlocks(c)

InitParsers == InitWith(ParserInputs)

SpecParsers == InitParsers /\ [][NextParsers]_vars

(***************************************************************************)
(* The caller submitting its batch again after it was applied              *)
(***************************************************************************)

\* The most times a caller submits its batch
MaxSubmissions == 2

\* The caller whose batch was applied calls callTool again with the same
\* parameters, the same declared original_line_count included
Resubmit(c) ==
  /\ call[c].pc = "done"
  /\ call[c].result = Ok
  /\ Len(writeLog) < MaxSubmissions
  /\ call' = [call EXCEPT ![c] = NewCall]
  /\ UNCHANGED <<file, streamState, request, writeLog, file0>>

NextResubmit ==
  \/ \E c \in Callers : Invoke(c)
  \/ \E c \in Callers : Apply(c)
  \/ \E c \in Callers : Recheck(c)
  \/ \E c \in Callers : WriteBack(c)
  \/ \E c \in Callers : Resubmit(c)
  \/ StreamChange

SpecResubmit == InitDirect /\ [][NextResubmit]_vars

(***************************************************************************)
(* LineNumberService applied on its own to a text                          *)
(***************************************************************************)

\* The longest text, in characters
MaxTextLen == 4

\* The characters of the texts: a letter, the characters of a marker, a
\* blank and the two characters of line endings
TextChars == {"a", "[", "1", "]", " ", NL, "\r"}

\* A text of ten lines, whose markers are padded to two digits
TenLines == <<"a">> \o [k \in 1..9 |-> NL]

Texts == {<<>>, TenLines} \cup SeqsUpTo(TextChars, MaxTextLen)

LineServiceCall == [tool |-> "LineNumberService", params |-> NoParams]

LineServiceInputs == {<<t, {LineServiceCall}>> : t \in Texts}

\* The text with its \n line endings written as \r\n
WithCrLf(content) == ReplaceAll(NormalizeEol(content), <<NL>>, <<"\r", NL>>)

\* LineNumberService.addLineNumbers(text)
NumberLines(c) ==
  /\ call[c].pc = "idle"
  /\ call' = [call EXCEPT ![c] =
                [@ EXCEPT !.pc = "numbered", !.buf = addLineNumbers(file, NoOptions)]]
  /\ UNCHANGED <<file, streamState, request, writeLog, file0>>

\* LineNumberService.removeFixedLineNumbers of the numbered text
StripNumbers(c) ==
  /\ call[c].pc = "numbered"
  /\ call' = [call EXCEPT ![c] =
                [@ EXCEPT !.pc = "stripped", !.buf = removeFixedLineNumbers(@)]]
  /\ UNCHANGED <<file, streamState, request, writeLog, file0>>

\* LineNumberService.addLineNumbers of the numbered text
NumberAgain(c) ==
  /\ call[c].pc = "numbered"
  /\ call' = [call EXCEPT ![c] =
                [@ EXCEPT !.pc = "renumbered", !.buf = addLineNumbers(@, NoOptions)]]
  /\ UNCHANGED <<file, streamState, request, writeLog, file0>>

\* LineNumberService.getLineCount of the text and of its \r\n form
CountLines(c) ==
  /\ call[c].pc = "idle"
  /\ call' = [call EXCEPT ![c] =
                [@ EXCEPT !.pc = "counted",
                          !.result = [kind |-> "count",
                                      info |-> <<getLineCount(file),
                                                 getLineCount(WithCrLf(file))>>,
                                      at |-> 0]]]
  /\ UNCHANGED <<file, streamState, request, writeLog, file0>>

NextLines ==
  \/ \E c \in Callers : NumberLines(c)
  \/ \E c \in Callers : StripNumbers(c)
  \/ \E c \in Callers : NumberAgain(c)
  \/ \E c \in Callers : CountLines(c)

InitLines == InitWith(LineServiceInputs)

SpecLines == InitLines /\ [][NextLines]_vars

(***************************************************************************)
(* callTool.read_file, and the caller that takes the declared line count   *)
(* of its edit from the numbered text it was shown                         *)
(***************************************************************************)

MAX_FILE_CHARS_PAGE == 500000

\* model.getValueInRange over whole lines startLineNumber..endLineNumber (the
\* editor keeps the range inside the text)
ValueInRange(content, startLineNumber, endLineNumber) ==
  LET lines == Split(content)
      s == IF startLineNumber < 1 THEN 1 ELSE Min(startLineNumber, Len(lines))
      e == IF endLineNumber < s THEN s ELSE Min(endLineNumber, Len(lines))
  IN Join(SubSeq(lines, s, e))

\* read_file returning the number of lines LineNumberService.getLineCount
\* gives for the content
read_fileCountingContentLines(content, startLine, endLine, pageNumber) ==
  [fileContents |-> addLineNumbers(content,
                      [padding |-> Len(ToStr(ModelLineCount(content))), startAt |-> 1]),
   totalFileLen |-> Len(content),
   hasNextPage |-> FALSE,
   original_line_count |-> getLineCount(content)]

\* callTool.read_file with pages of pageChars characters: the numbered page
\* and the line count of the file
read_filePaged(content, startLine, endLine, pageNumber, pageChars) ==
  LET startLineNumber == IF startLine = JsNull /\ endLine = JsNull THEN 1
                         ELSE IF startLine = JsNull THEN 1 ELSE startLine.v
      contents == IF startLine = JsNull /\ endLine = JsNull THEN content
                  ELSE ValueInRange(content, startLineNumber,
                         IF endLine = JsNull THEN ModelLineCount(content)
                         ELSE endLine.v)
      totalNumLines == ModelLineCount(content)
      fromIdx == pageChars * (pageNumber - 1)
      toIdx == pageChars * pageNumber - 1
      page == SubSeq(contents, fromIdx + 1, Min(toIdx + 1, Len(contents)))
  IN [fileContents |-> addLineNumbers(page,
                         [padding |-> Len(ToStr(totalNumLines)),
                          startAt |-> startLineNumber + fromIdx]),
      totalFileLen |-> Len(contents),
      hasNextPage |-> (Len(contents) - 1) - toIdx >= 1,
      original_line_count |-> totalNumLines]

\* callTool.read_file: its pages hold MAX_FILE_CHARS_PAGE characters
read_file(content, startLine, endLine, pageNumber) ==
  read_filePaged(content, startLine, endLine, pageNumber, MAX_FILE_CHARS_PAGE)

\* The digits of the marker a displayed line begins with, <<>> when it
\* begins with none
MarkerDigits(line) == SubSeq(line, 2, Len(line) - Len(StripMarker(line)) - 1)

\* The number a reader takes from the marker of the last displayed line
LastMarkerNumber(display) ==
  ParseInt(MarkerDigits(Split(display)[Len(Split(display))]))

\* The files read: with and without a final line break, of ten lines, and
\* with lines that begin with a bracketed number
ReadFiles ==
  UNION {FilesOfLines(n) : n \in 1..MaxLines}
  \cup {TenLines, <<"[", "1", "]", "a">>, <<"a", NL, "[", "1", "]">>}

\* The lines asked of read_file: the whole file, or lines from..to
ReadRanges == {[startLine |-> JsNull, endLine |-> JsNull],
               [startLine |-> JsNum(1), endLine |-> JsNum(1)],
               [startLine |-> JsNum(2), endLine |-> JsNull]}

\* The edit the reader makes next: its declared count is still to be read
EditsAfterRead ==
  {[tool |-> "replace_file_blocks",
    params |-> [original_line_count |-> JsUndefined,
                edits |-> <<RangeBlock(1, 1, <<"X">>)>>]],
   [tool |-> "insert_file_blocks",
    params |-> [original_line_count |-> JsUndefined,
                edits |-> <<AnchorBlock(1, "after", <<"X">>)>>]]}

InitRead ==
  /\ file \in ReadFiles
  /\ file0 = file
  /\ request \in [Callers -> {e @@ [read |-> r] : e \in EditsAfterRead, r \in ReadRanges}]
  /\ streamState = "idle"
  /\ call = [c \in Callers |-> [NewCall EXCEPT !.pc = "toRead"]]
  /\ writeLog = <<>>

\* callTool.read_file, page 1
ReadFile(c) ==
  /\ call[c].pc = "toRead"
  /\ LET r == read_file(file, request[c].read.startLine, request[c].read.endLine, 1)
     IN call' = [call EXCEPT ![c] =
                   [@ EXCEPT !.pc = "read", !.buf = r.fileContents,
                             !.result = [kind |-> "read",
                                         info |-> <<r.original_line_count>>,
                                         at |-> 0]]]
  /\ UNCHANGED <<file, streamState, request, writeLog, file0>>

\* The reader submits its edit, declaring as original_line_count the number
\* in the marker of the last line it was shown
SubmitRead(c) ==
  /\ call[c].pc = "read"
  /\ call[c].buf # <<>>
  /\ request' = [request EXCEPT ![c].params.original_line_count =
                   JsStr(MarkerDigits(Split(call[c].buf)[Len(Split(call[c].buf))]))]
  /\ call' = [call EXCEPT ![c] = NewCall]
  /\ UNCHANGED <<file, streamState, writeLog, file0>>

NextRead ==
  \/ \E c \in Callers : ReadFile(c)
  \/ \E c \in Callers : SubmitRead(c)
  \/ \E c \in Callers : Validate(c)
  \/ \E c \in Callers : Apply(c)
  \/ \E c \in Callers : Recheck(c)
  \/ \E c \in Callers : WriteBack(c)
  \/ StreamChange

SpecRead == InitRead /\ [][NextRead]_vars

(***************************************************************************)
(* A caller that writes its new content with the standard entity escaping  *)
(***************************************************************************)

\* The longest new content, in characters
MaxContentLen == 4

\* The characters of the new contents: the characters of the entity &lt;,
\* the character it stands for, and a letter
ContentChars == {"&", "l", "t", ";", "<", "X"}

EscapableContents == SeqsUpTo(ContentChars, MaxContentLen)

\* The escaped form of one character: & < > " ' are written as entities
EscapeChar(ch) ==
  CASE ch = "&" -> <<"&", "a", "m", "p", ";">>
    [] ch = "<" -> <<"&", "l", "t", ";">>
    [] ch = ">" -> <<"&", "g", "t", ";">>
    [] ch = "\"" -> <<"&", "q", "u", "o", "t", ";">>
    [] ch = "'" -> <<"&", "a", "p", "o", "s", ";">>
    [] OTHER -> <<ch>>

\* The escaped form of a text, as it stands between the tags of new_content
RECURSIVE EscapeXml(_)
EscapeXml(s) == IF s = <<>> THEN <<>> ELSE EscapeChar(s[1]) \o EscapeXml(Tail(s))

\* replace_file_blocks calls on the first line of the file a, each with one
\* content escaped; the call keeps the content as it was before escaping
EscapedRequests ==
  {Request("replace_file_blocks", 1, <<RangeBlock(1, 1, EscapeXml(s))>>)
     @@ [content |-> s] : s \in EscapableContents}

EscapedInputs == {<<BaseFile(1), EscapedRequests>>}

InitEscaped == InitWith(EscapedInputs)

SpecEscaped == InitEscaped /\ [][Next]_vars

(***************************************************************************)
(* Two tool calls in flight on the same file                               *)
(***************************************************************************)

\* The callers whose calls interleave at their awaits
Writers == {1, 2}

\* The calls the two make on the file a, b: each declares the two lines of
\* the file
WriterRequests ==
  {DirectCall("replace_file_blocks", 2,
              <<[startLine |-> JsNum(l), endLine |-> JsNum(l), newContent |-> x]>>) :
     l \in 1..2, x \in PairContents}
  \cup
  {DirectCall("insert_file_blocks", 2,
              <<[line_index |-> JsNum(l), before_after |-> JsStr("after"),
                 new_content |-> x]>>) :
     l \in 1..2, x \in PairContents}

InitWriters ==
  /\ file = BaseFile(2)
  /\ file0 = file
  /\ request \in [Writers -> WriterRequests]
  /\ streamState = "idle"
  /\ call = [c \in Writers |-> NewCall]
  /\ writeLog = <<>>

\* Each call runs from one await to the next; between two awaits of one
\* call the other may run
NextWriters ==
  \/ \E c \in Writers : Invoke(c)
  \/ \E c \in Writers : Apply(c)
  \/ \E c \in Writers : Recheck(c)
  \/ \E c \in Writers : WriteBack(c)
  \/ StreamChange

SpecWriters == InitWriters /\ [][NextWriters]_vars

(***************************************************************************)
(* The file changed by someone else between the caller's read and its call *)
(***************************************************************************)

\* The contents the file may have after the change: its first line
\* rewritten (the number of lines stays), a line added at the end, or its
\* last line removed
ChangedContents(content) ==
  LET lines == Split(content)
      in1 == Join(<<<<"z">>>> \o Tail(lines))
  IN {in1, content \o <<NL, "z">>}
     \cup (IF Len(lines) > 1 THEN {Join(SubSeq(lines, 1, Len(lines) - 1))} ELSE {})

\* Another writer rewrites the file after the caller has read it and before
\* the caller's call compares the line counts
OtherWrite ==
  /\ file = file0
  /\ \A c \in Callers : call[c].pc \in {"read", "idle", "validated"}
  /\ file' \in ChangedContents(file) \ {file}
  /\ UNCHANGED <<streamState, request, call, writeLog, file0>>

NextStale ==
  \/ \E c \in Callers : ReadFile(c)
  \/ \E c \in Callers : SubmitRead(c)
  \/ \E c \in Callers : Validate(c)
  \/ \E c \in Callers : Apply(c)
  \/ \E c \in Callers : Recheck(c)
  \/ \E c \in Callers : WriteBack(c)
  \/ StreamChange
  \/ OtherWrite

SpecStale == InitRead /\ [][NextStale]_vars

(***************************************************************************)
(* Files and new contents that hold text shaped like a line marker         *)
(***************************************************************************)

\* New contents: a plain line, the marker and text of line 3 of the files
\* a, b, c, and a line that begins with a bracketed number
MarkedContents ==
  {<<"Y">>, <<"[", "3", "]", "c">>, <<"[", "1", "]", " ", "i">>}

\* The files of n lines: a, b, c, ... and, for n = 2, the file whose first
\* line holds the marker and text of its second
MarkedFiles(n) ==
  {BaseFile(n)} \cup (IF n = 2 THEN {<<"[", "2", "]", "b", NL, "b">>} ELSE {})

\* Valid calls on a file of n lines: replacements of ranges that share no
\* line, insertions at anchors of which no two are the same
MarkedRequests(n) ==
  {DirectCall("replace_file_blocks", n,
              [i \in 1..Len(rs) |-> [startLine |-> JsNum(rs[i][1]),
                                     endLine |-> JsNum(rs[i][2]),
                                     newContent |-> cs[i]]]) :
     <<rs, cs>> \in UNION {{<<x, y>> : y \in [1..Len(x) -> MarkedContents]} :
                             x \in DisjointRanges(n)}}
  \cup
  {DirectCall("insert_file_blocks", n,
              [i \in 1..Len(as) |-> [line_index |-> JsNum(as[i]),
                                     before_after |-> JsStr("after"),
                                     new_content |-> cs[i]]]) :
     <<as, cs>> \in UNION {{<<x, y>> : y \in [1..Len(x) -> MarkedContents]} :
                             x \in {a \in SeqsUpTo(1..n, MaxEdits) :
                                      \A i, j \in 1..Len(a) : i # j => a[i] # a[j]}}}

MarkedInputs ==
  UNION {{<<f, MarkedRequests(n)>> : f \in MarkedFiles(n)} : n \in 1..MaxLines}

InitMarked == InitWith(MarkedInputs)

SpecMarked == InitMarked /\ [][NextDirect]_vars

(***************************************************************************)
(* callTool.read_file on files of several pages.  A page of the program    *)
(* holds MAX_FILE_CHARS_PAGE characters; the pages read here hold          *)
(* PageChars characters, so that short files have a second page.           *)
(***************************************************************************)

\* The length of a page, in characters
PageChars == 3

\* The files read in pages: lines of the letter a, the longest files two
\* characters longer than a page
PagedFiles == SeqsUpTo({"a", NL}, PageChars + 2)

\* The pages and lines asked of read_file
PagedReads ==
  {[startLine |-> r.startLine, endLine |-> r.endLine, pageNumber |-> p] :
     r \in ReadRanges, p \in 1..3}

InitPages ==
  /\ file \in PagedFiles
  /\ file0 = file
  /\ request \in [Callers -> {[tool |-> "read_file", params |-> NoParams, read |-> r] :
                                r \in PagedReads}]
  /\ streamState = "idle"
  /\ call = [c \in Callers |-> [NewCall EXCEPT !.pc = "toRead"]]
  /\ writeLog = <<>>

\* callTool.read_file of the page asked
ReadPage(c) ==
  /\ call[c].pc = "toRead"
  /\ LET r == read_filePaged(file, request[c].read.startLine, request[c].read.endLine,
                             request[c].read.pageNumber, PageChars)
     IN call' = [call EXCEPT ![c] =
                   [@ EXCEPT !.pc = "read", !.buf = r.fileContents,
                             !.result = [kind |-> "read",
                                         info |-> <<r.original_line_count>>,
                                         at |-> 0]]]
  /\ UNCHANGED <<file, streamState, request, writeLog, file0>>

NextPages == \E c \in Callers : ReadPage(c)

SpecPages == InitPages /\ [][NextPages]_vars

(***************************************************************************)
(* Properties                                                              *)
(***************************************************************************)

\* The call of caller c has passed the synchronous part of callTool
Applied(c) == call[c].params # NoParams /\ call[c].pc \in {"computed", "prewrite", "done"}

\* The call of caller c got as far as the loop over its directives
ReachedLoop(c) ==
  /\ Applied(c)
  /\ \/ call[c].pc # "done"
     \/ call[c].result.kind \in {"ok", "OutOfBounds", "OverlappingEdits"}
     \/ call[c].result.kind = "Busy" /\ call[c].buf # <<>>

Failed(c) == call[c].pc = "done" /\ call[c].result.kind # "ok"

Succeeded(c) == call[c].pc = "done" /\ call[c].result.kind = "ok"

IsReplace(c) == request[c].tool = "replace_file_blocks"

IsInsert(c) == request[c].tool = "insert_file_blocks"

\* The lines of the file before the call, and their number
Lines0 == Split(file0)

LineCount0 == ModelLineCount(file0)

\* The range of directive i of a replace call
RangeOfEdit(c, i) ==
  <<call[c].params.edits[i].startLine.v, call[c].params.edits[i].endLine.v>>

InBounds(r) == 1 <= r[1] /\ r[1] <= r[2] /\ r[2] <= LineCount0

ShareALine(r1, r2) == \E l \in 1..(LineCount0 + 1) :
  r1[1] <= l /\ l <= r1[2] /\ r2[1] <= l /\ l <= r2[2]

EditIndexes(c) == 1..Len(call[c].params.edits)

AllInBounds(c) == \A i \in EditIndexes(c) : InBounds(RangeOfEdit(c, i))

SomePairShares(c) == \E i, j \in EditIndexes(c) :
  i # j /\ ShareALine(RangeOfEdit(c, i), RangeOfEdit(c, j))

\* C1: whenever the declared original_line_count differs from the file's line
\* count, replace_file_blocks and insert_file_blocks fail with the error that
\* holds both numbers, whatever the directives are (so before any bounds or
\* overlap check), and nothing is written.
C1_StaleFailsFirst ==
  \A c \in Callers :
    Applied(c) /\ call[c].params.original_line_count # LineCount0 =>
      /\ call[c].pc = "done"
      /\ call[c].result =
           Failure("StaleSnapshot",
                   <<LineCount0, call[c].params.original_line_count>>, 0)
      /\ file = file0
      /\ writeLog = <<>>

\* A stale call whose first directive starts at line 0 has failed as stale
C1_Witness ==
  \E c \in Callers :
    /\ IsReplace(c)
    /\ call[c].pc = "done"
    /\ call[c].result.kind = "StaleSnapshot"
    /\ call[c].params.edits[1].startLine.v = 0

\* C2: a call that fails, for whatever reason and at whatever directive, never
\* invokes the write-back and leaves the file as it was.
C2_NoPartialWrites ==
  \A c \in Callers : Failed(c) => file = file0 /\ writeLog = <<>>

\* A call failed at its second directive after the first was substituted into
\* the working buffer
C2_Witness ==
  \E c \in Callers :
    /\ Failed(c)
    /\ call[c].result.kind = "OutOfBounds"
    /\ call[c].result.at = 2
    /\ call[c].buf # addLineNumbers(file0, NoOptions)
    /\ call[c].buf # <<>>

\* The overlap error of caller c names two directives of the batch, by their
\* 0-based place in the submission, with their ranges, and the two share a line
NamesAnOverlappingPair(c) ==
  LET info == call[c].result.info
  IN /\ call[c].result.kind = "OverlappingEdits"
     /\ Len(info) = 6
     /\ info[1] # info[4]
     /\ info[1] + 1 \in EditIndexes(c)
     /\ info[4] + 1 \in EditIndexes(c)
     /\ RangeOfEdit(c, info[1] + 1) = <<info[2], info[3]>>
     /\ RangeOfEdit(c, info[4] + 1) = <<info[5], info[6]>>
     /\ ShareALine(<<info[2], info[3]>>, <<info[5], info[6]>>)

\* C3 as stated: whenever two ranges of a batch share a line the call fails
\* with the overlap error naming two directives, in every submission order,
\* and a batch whose ranges share no line is never rejected for overlap.
C3_AnyBatchOverlapError ==
  \A c \in Callers :
    IsReplace(c) /\ ReachedLoop(c) =>
      /\ SomePairShares(c) => call[c].pc = "done" /\ NamesAnOverlappingPair(c)
      /\ ~SomePairShares(c) /\ AllInBounds(c) =>
           call[c].result.kind # "OverlappingEdits"

\* C3 amended: for a batch whose directives are all in bounds, two ranges that
\* share a line make the call fail with the overlap error naming two
\* directives of the submission, in every submission order; a batch whose
\* ranges share no line (touching ranges included) is never rejected for
\* overlap; and no batch with two ranges sharing a line is accepted.
C3_InBoundsBatchOverlapError ==
  \A c \in Callers :
    IsReplace(c) /\ ReachedLoop(c) =>
      /\ AllInBounds(c) /\ SomePairShares(c) =>
           call[c].pc = "done" /\ NamesAnOverlappingPair(c)
      /\ AllInBounds(c) /\ ~SomePairShares(c) =>
           call[c].result.kind # "OverlappingEdits"
      /\ SomePairShares(c) => Failed(c)

\* An overlap was reported for an in-bounds batch submitted with the later
\* range first
C3_Witness ==
  \E c \in Callers :
    /\ IsReplace(c)
    /\ call[c].result.kind = "OverlappingEdits"
    /\ AllInBounds(c)
    /\ call[c].result.info[1] > call[c].result.info[4]

\* C4: a directive with startLine < 1, endLine > line count or startLine >
\* endLine makes replace_file_blocks fail with the out-of-bounds error wherever
\* it stands in the batch, and the out-of-bounds error is only ever raised for
\* such a directive.
C4_OutOfBoundsAnywhere ==
  \A c \in Callers :
    IsReplace(c) /\ ReachedLoop(c) =>
      /\ ~AllInBounds(c) => call[c].pc = "done" /\ call[c].result.kind = "OutOfBounds"
      /\ call[c].result.kind = "OutOfBounds" =>
           ~InBounds(RangeOfEdit(c, call[c].result.at))

\* No line of the text begins with a bracketed number, and the text holds no
\* bracket at all
MarkerFree(text) == \A k \in 1..Len(text) : text[k] \notin {"[", "]"}

\* The lines of a new content: none for the empty content
ContentLines(c) == IF c = <<>> THEN <<>> ELSE Split(c)

\* The file with lines s..e replaced by the lines of c
WithRangeReplaced(lines, s, e, c) ==
  Join(SubSeq(lines, 1, s - 1) \o ContentLines(c) \o SubSeq(lines, e + 1, Len(lines)))

\* C5: one valid directive ReplaceRange{s,e,c} with a non-empty c, file and c
\* free of line markers: the content written back is the original lines
\* 1..s-1, the lines of c, the original lines e+1..n.
C5_SingleReplace ==
  \A c \in Callers :
    LET edits == call[c].params.edits
    IN /\ IsReplace(c)
       /\ Succeeded(c)
       /\ Len(edits) = 1
       /\ edits[1].newContent # <<>>
       /\ MarkerFree(edits[1].newContent)
       /\ MarkerFree(file0)
       => file = WithRangeReplaced(Lines0, edits[1].startLine.v,
                                   edits[1].endLine.v, edits[1].newContent)

\* C6: one valid directive ReplaceRange{s,e,""} removes lines s..e: the
\* written content is the original lines 1..s-1 followed by e+1..n, with
\* e-s+1 fewer lines and no blank line in their place.
C6_DeleteByEmptyContent ==
  \A c \in Callers :
    LET edits == call[c].params.edits
    IN /\ IsReplace(c)
       /\ Succeeded(c)
       /\ Len(edits) = 1
       /\ edits[1].newContent = <<>>
       /\ MarkerFree(file0)
       => /\ file = WithRangeReplaced(Lines0, edits[1].startLine.v,
                                      edits[1].endLine.v, <<>>)
          /\ edits[1].endLine.v - edits[1].startLine.v + 1 < LineCount0 =>
               ModelLineCount(file) =
                 LineCount0 - (edits[1].endLine.v - edits[1].startLine.v + 1)

\* The directives of a batch in the order of their start lines
RECURSIVE ByStartLine(_)
ByStartLine(edits) ==
  IF Len(edits) = 0 THEN <<>>
  ELSE LET k == CHOOSE i \in 1..Len(edits) :
                  \A j \in 1..Len(edits) : edits[i].startLine.v <= edits[j].startLine.v
       IN <<edits[k]>> \o
          ByStartLine(SubSeq(edits, 1, k - 1) \o SubSeq(edits, k + 1, Len(edits)))

\* The lines of the original from line `from` on, every directive applied to
\* the lines its numbers denote in the original (sorted: by start line)
RECURSIVE AnchoredLines(_, _, _)
AnchoredLines(lines, sorted, from) ==
  IF Len(sorted) = 0 THEN SubSeq(lines, from, Len(lines))
  ELSE SubSeq(lines, from, sorted[1].startLine.v - 1)
       \o ContentLines(sorted[1].newContent)
       \o AnchoredLines(lines, Tail(sorted), sorted[1].endLine.v + 1)

\* C7: for a valid batch (in bounds, pairwise disjoint) free of line markers,
\* every directive is applied once to the lines its numbers denote in the
\* original file; the written content is therefore the same in every
\* submission order.
C7_OriginalAnchoring ==
  \A c \in Callers :
    LET edits == call[c].params.edits
    IN /\ IsReplace(c)
       /\ Succeeded(c)
       /\ MarkerFree(file0)
       /\ \A i \in 1..Len(edits) : MarkerFree(edits[i].newContent)
       => file = Join(AnchoredLines(Lines0, ByStartLine(edits), 1))

\* The file with the lines of c put before or after line a
WithInsertion(lines, a, placement, c) ==
  LET k == IF placement = "before" THEN a - 1 ELSE a
  IN Join(SubSeq(lines, 1, k) \o Split(c) \o SubSeq(lines, k + 1, Len(lines)))

\* C8: one valid insertion at anchor line a: placement after yields lines
\* 1..a, c, a+1..n, placement before yields 1..a-1, c, a..n; one line break
\* separates c from the anchor line and no original line changes.
C8_SingleInsertion ==
  \A c \in Callers :
    LET edits == call[c].params.edits
    IN /\ IsInsert(c)
       /\ Succeeded(c)
       /\ Len(edits) = 1
       /\ MarkerFree(edits[1].new_content)
       /\ MarkerFree(file0)
       => file = WithInsertion(Lines0, edits[1].line_index.v,
                               edits[1].before_after.v, edits[1].new_content)

\* The number written in <insert_after_line> of segment i of the raw call
WrittenAnchor(c, i) == ParseInt(request[c].params.edits[i].insert_after_line)

\* C9: an edit written as <insert_after_line>N</insert_after_line> with
\* 1 <= N <= line count reaches the applier with anchor N.
C9_AnchorPreserved ==
  \A c \in Callers :
    IsInsert(c) /\ call[c].params # NoParams =>
      \A i \in 1..Len(call[c].params.edits) :
        1 <= WrittenAnchor(c, i) /\ WrittenAnchor(c, i) <= LineCount0 =>
          call[c].params.edits[i].line_index = JsNum(WrittenAnchor(c, i))

\* C10: an edit written with <before_after>before</before_after> has its
\* content placed before the anchor line the applier uses, one written with
\* after has it placed after that line.
C10_PlacementPreserved ==
  \A c \in Callers :
    LET edits == call[c].params.edits
    IN /\ IsInsert(c)
       /\ Succeeded(c)
       /\ Len(edits) = 1
       => file = WithInsertion(Lines0, edits[1].line_index.v,
                               request[c].params.edits[1].before_after,
                               edits[1].new_content)

\* The places of the line `text` among the lines of the file
LinesEqualTo(text) == {k \in 1..Len(Split(file)) : Split(file)[k] = text}

\* C11: two insertions of one batch at the same anchor line with the same
\* placement: both contents are in the written file, the content submitted
\* first before the content submitted second.
C11_SameAnchorSubmissionOrder ==
  \A c \in Callers :
    LET edits == call[c].params.edits
    IN /\ IsInsert(c)
       /\ Succeeded(c)
       /\ Len(edits) = 2
       /\ edits[1].line_index = edits[2].line_index
       /\ edits[1].before_after = edits[2].before_after
       /\ edits[1].new_content # edits[2].new_content
       => \E i \in LinesEqualTo(edits[1].new_content) :
            \E j \in LinesEqualTo(edits[2].new_content) : i < j

\* C12: an insertion whose written anchor is below 1 or above the current
\* line count makes the whole insert_file_blocks request fail: it is never
\* applied at another line.
C12_OutOfRangeAnchorFails ==
  \A c \in Callers :
    /\ IsInsert(c)
    /\ \E i \in 1..Len(request[c].params.edits) :
         WrittenAnchor(c, i) < 1 \/ WrittenAnchor(c, i) > LineCount0
    => ~Succeeded(c)

\* The segments of the raw call that lack their start line or their end line
SegmentsLackingALine(c) ==
  {i \in 1..Len(request[c].params.edits) :
     "startLine" \notin DOMAIN request[c].params.edits[i]
     \/ "endLine" \notin DOMAIN request[c].params.edits[i]}

\* C13: a range segment that lacks its start line or its end line is rejected
\* with a parse error naming the segment: the call never gets past
\* validateParams, and nothing is applied with 1 or the last line in the
\* place of the missing number.
C13_MissingLineRejected ==
  \A c \in Callers :
    SegmentsLackingALine(c) # {} /\ call[c].pc # "idle" =>
      /\ call[c].pc = "done"
      /\ call[c].result.kind = "MalformedDirectiveBatch"
      /\ call[c].result.info # <<>>
      /\ call[c].result.info[1] \in SegmentsLackingALine(c)

\* C14: a directive text with no recognizable segment makes each parser fail:
\* none returns an empty list of directives; the file is untouched.
C14_NoSegmentFails ==
  \A c \in Callers :
    request[c].params.edits = <<>> /\ call[c].pc = "done" =>
      /\ call[c].result.kind = "MalformedDirectiveBatch"
      /\ file = file0

\* The writes made for caller c
WritesOf(c) == {k \in 1..Len(writeLog) : writeLog[k][1] = c}

\* C15: a replace batch that was applied and is submitted again with the same
\* declared original_line_count fails the staleness or the bounds check: it
\* is never applied a second time.
C15_NoDoubleApply ==
  \A c \in Callers : IsReplace(c) => Cardinality(WritesOf(c)) <= 1

\* C16: a call on a file that is streaming is rejected with the busy error
\* and writes nothing: at the check that follows the staleness check, and at
\* the check made again before the write-back, so that no step writes a file
\* that is streaming.
C16_BusyRejection ==
  [][\A c \in Callers :
       /\ call[c].pc = "validated" /\ call'[c].pc # "validated"
          /\ streamState = "streaming"
          /\ call[c].params.original_line_count = ModelLineCount(file)
          => call'[c].pc = "done" /\ call'[c].result.kind = "Busy"
                                  /\ writeLog' = writeLog
       /\ call[c].pc = "computed" /\ call'[c].pc # "computed"
          /\ streamState = "streaming"
          => call'[c].pc = "done" /\ call'[c].result.kind = "Busy"
                                  /\ writeLog' = writeLog
       /\ writeLog' # writeLog => streamState # "streaming"]_vars

\* C17: for every text T, removeFixedLineNumbers(addLineNumbers(T)) is T with
\* \r\n normalized to \n, also when a line of T begins with a bracketed
\* number.
C17_RoundTrip ==
  \A c \in Callers : call[c].pc = "stripped" => call[c].buf = NormalizeEol(file)

\* C18: numbering a numbered text changes nothing: addLineNumbers of
\* addLineNumbers(T) is addLineNumbers(T) for every text T, a line that
\* begins with its expected marker getting no second marker.
C18_Idempotent ==
  [][\A c \in Callers :
       call[c].pc = "numbered" /\ call'[c].pc = "renumbered"
       => call'[c].buf = call[c].buf]_vars

\* The line breaks of a text
LineBreaksOf(text) == {k \in 1..Len(text) : text[k] = NL}

\* C19: getLineCount of the empty text is 0; of any other text it is the
\* number of its lines after \r\n normalization, a final line break adding
\* no line; the \r\n form of the text has the same count.
C19_LineCount ==
  \A c \in Callers :
    call[c].pc = "counted" =>
      LET text == NormalizeEol(file)
          breaks == Cardinality(LineBreaksOf(text))
      IN /\ call[c].result.info[1] =
              (IF file = <<>> THEN 0
               ELSE IF text[Len(text)] = NL THEN breaks ELSE breaks + 1)
         /\ call[c].result.info[2] = call[c].result.info[1]

\* A text that ends with a line break after its second line was counted
C19_Witness ==
  \E c \in Callers :
    /\ call[c].pc = "counted"
    /\ file = <<"a", NL, "a", NL>>
    /\ call[c].result.info = <<2, 2>>

\* The caller read the whole of a non-empty file that fits one page
WholeFileRead(c) ==
  /\ request[c].read.startLine = JsNull
  /\ request[c].read.endLine = JsNull
  /\ file0 # <<>>
  /\ Len(file0) <= MAX_FILE_CHARS_PAGE

\* C20: after a whole-file read_file of a non-empty file the number in the
\* marker of the last displayed line is the returned original_line_count, and
\* the edit that declares this number on the unchanged file passes the
\* staleness check of replace_file_blocks and insert_file_blocks.
C20_DeclaredCountFromDisplay ==
  \A c \in Callers :
    WholeFileRead(c) =>
      /\ call[c].pc = "read" =>
           LastMarkerNumber(call[c].buf) = call[c].result.info[1]
      /\ call[c].pc \in {"validated", "computed", "prewrite", "done"} =>
           /\ call[c].params.original_line_count = LineCount0
           /\ call[c].result.kind # "StaleSnapshot"

\* An edit declared the count read from the display of a file that ends with
\* a line break, and was applied
C20_Witness ==
  \E c \in Callers :
    /\ WholeFileRead(c)
    /\ file0 = <<"a", NL>>
    /\ request[c].params.original_line_count = JsStr(<<"2">>)
    /\ Succeeded(c)

\* The caller handed parseRawUpdateFileBlocks the text of one operation of
\* type replace with a well-formed range
OneReplaceOperation(c) ==
  /\ request[c].tool = "parseRawUpdateFileBlocks"
  /\ Len(request[c].params.edits) = 1
  /\ request[c].params.edits[1].type = "replace"
  /\ parseLineRange(request[c].params.edits[1]).ok

\* What callTool.replace_file_blocks writes for the one directive
\* ReplaceRange{s,e,c} on the original file
SingleDirectiveResult(s, e, c) ==
  removeFixedLineNumbers(
    ApplyDirectives("replace_file_blocks",
                    [original_line_count |-> LineCount0,
                     edits |-> <<[startLine |-> JsNum(s), endLine |-> JsNum(e),
                                  newContent |-> c]>>],
                    file0, "idle").buf)

C22_EscapeRoundTrip ==
  \A c \in Callers :
    /\ "content" \in DOMAIN request[c]
    /\ call[c].pc \in {"validated", "computed", "prewrite", "done"}
    /\ call[c].params # NoParams
    => call[c].params.edits[1].newContent = request[c].content

\* What the call of c computes from a content of the file
ComputedFrom(c, content) ==
  removeFixedLineNumbers(
    ApplyDirectives(request[c].tool, call[c].params, content, "idle").buf)

\* C23: no lost update: every write-back stores the result computed from the
\* content that is in the file at the moment of the write.
C23_NoLostUpdate ==
  [][\A c \in DOMAIN call :
       call[c].pc = "prewrite" /\ call'[c].pc = "done" =>
         /\ ApplyDirectives(request[c].tool, call[c].params, file, "idle").result = Ok
         /\ file' = ComputedFrom(c, file)]_vars

\* C24: a call made when the content of the file differs from the content
\* the caller read is rejected as stale, also when the number of lines is
\* the one the caller read.
C24_EveryStaleSnapshotRejected ==
  [][\A c \in Callers :
       call[c].pc = "validated" /\ call'[c].pc # "validated" /\ file # file0 =>
         call'[c].result.kind = "StaleSnapshot"]_vars

\* The numbered lines of the original file
NumberedLines0 == Split(addLineNumbers(file0, NoOptions))

\* The numbered lines with the content of every insertion put after the
\* line it is anchored at
RECURSIVE WithInsertionsAfter(_, _, _)
WithInsertionsAfter(lines, edits, k) ==
  IF k > Len(lines) THEN <<>>
  ELSE LET at == {i \in 1..Len(edits) : edits[i].line_index.v = k}
       IN <<lines[k]>>
          \o (IF at = {} THEN <<>> ELSE Split(edits[CHOOSE i \in at : TRUE].new_content))
          \o WithInsertionsAfter(lines, edits, k + 1)

\* C25: in a valid batch every directive's substitution lands on its own
\* original lines: the working buffer is the numbered original with the
\* lines of each range replaced by that directive's content (each insertion
\* put after its own anchor line), whatever text the file and the contents
\* hold.
C25_NoInterference ==
  \A c \in Callers :
    call[c].pc \in {"computed", "prewrite"} =>
      LET edits == call[c].params.edits
      IN call[c].buf =
           IF IsReplace(c)
           THEN Join(AnchoredLines(NumberedLines0, ByStartLine(edits), 1))
           ELSE Join(WithInsertionsAfter(NumberedLines0, edits, 1))

\* The new content of directive i of the call of c
NewContentAt(c, i) ==
  IF IsReplace(c) THEN call[c].params.edits[i].newContent
  ELSE call[c].params.edits[i].new_content

\* The lines of a content stand unchanged, one after the other, in a text
StandsIn(content, text) ==
  \E k \in 1..Len(Split(text)) :
    /\ k + Len(Split(content)) - 1 <= Len(Split(text))
    /\ SubSeq(Split(text), k, k + Len(Split(content)) - 1) = Split(content)

\* C26: the content written back holds every line of every directive's new
\* content unchanged, also the lines that begin with a bracketed number.
C26_OnlyEngineMarkersStripped ==
  \A c \in Callers :
    Succeeded(c) =>
      \A i \in 1..Len(call[c].params.edits) : StandsIn(NewContentAt(c, i), file)

\* C27: for a non-empty text T, addLineNumbers(T) holds getLineCount(T)
\* numbered lines and the k-th carries the marker k, so the highest marker
\* is the line count.
C27_NumberingAgreesWithCounting ==
  \A c \in Callers :
    call[c].pc = "numbered" /\ file # <<>> =>
      LET numbered == Split(call[c].buf)
      IN /\ Len(numbered) = getLineCount(file)
         /\ \A k \in 1..Len(numbered) : ParseInt(MarkerDigits(numbered[k])) = k

\* The first line asked of read_file, and the text of the lines asked
FirstLineRead(c) ==
  IF request[c].read.startLine = JsNull THEN 1 ELSE request[c].read.startLine.v

TextRead(c) ==
  IF request[c].read.startLine = JsNull /\ request[c].read.endLine = JsNull THEN file
  ELSE ValueInRange(file, FirstLineRead(c),
                    IF request[c].read.endLine = JsNull THEN ModelLineCount(file)
                    ELSE request[c].read.endLine.v)

\* C28: on every page of read_file the marker of a displayed line is the
\* 1-based number of that line in the file: the first line asked plus the
\* number of line breaks of the text read that precede the line.
C28_PagedNumbering ==
  \A c \in Callers :
    call[c].pc = "read" /\ request[c].tool = "read_file" /\ call[c].buf # <<>> =>
      LET shown == Split(call[c].buf)
          before == SubSeq(TextRead(c), 1, PageChars * (request[c].read.pageNumber - 1))
      IN \A j \in 1..Len(shown) :
           ParseInt(MarkerDigits(shown[j])) =
             FirstLineRead(c) + Cardinality(LineBreaksOf(before)) + j - 1

\* A text with the first occurrence of a fragment replaced by another text,
\* character for character
WithTextPlaced(text, fragment, placed) ==
  LET i == IndexOf(text, fragment)
  IN SubSeq(text, 1, i - 1) \o placed \o SubSeq(text, i + Len(fragment), Len(text))

\* C29: the text a directive places into the working buffer is its new
\* content character for character (for an insertion: the anchor line and
\* the new content, a line break between them), also when the content
\* holds $$, $&, $ followed by a grave accent or $'.
C29_VerbatimSubstitution ==
  \A c \in Callers :
    call[c].pc \in {"computed", "prewrite"} /\ Len(call[c].params.edits) = 1 =>
      LET edit == call[c].params.edits[1]
          numbered == addLineNumbers(file0, NoOptions)
      IN call[c].buf =
           IF IsReplace(c)
           THEN WithTextPlaced(numbered,
                  getContentFragment(numbered, edit.startLine.v, edit.endLine.v),
                  edit.newContent)
           ELSE LET fragment == getContentFragment(numbered, edit.line_index.v,
                                                   edit.line_index.v)
                IN WithTextPlaced(numbered, fragment,
                     IF edit.before_after = JsStr("before")
                     THEN edit.new_content \o <<NL>> \o fragment
                     ELSE fragment \o <<NL>> \o edit.new_content)

\* The batch of c is two insertions at the same anchor line, directive i
\* placed before it and directive j after it
OppositePlacements(c, i, j) ==
  /\ IsInsert(c)
  /\ Len(call[c].params.edits) = 2
  /\ {i, j} = {1, 2}
  /\ call[c].params.edits[i].line_index = call[c].params.edits[j].line_index
  /\ call[c].params.edits[i].before_after = JsStr("before")
  /\ call[c].params.edits[j].before_after = JsStr("after")

\* C30: X placed before anchor line a and Y placed after the same line a are
\* written as X, line a, Y with line a unchanged, whichever of the two
\* directives is submitted first.
C30_OppositePlacementsCommute ==
  \A c \in Callers : \A i, j \in 1..2 :
    Succeeded(c) /\ OppositePlacements(c, i, j) =>
      LET edits == call[c].params.edits
          a == edits[i].line_index.v
      IN file = Join(SubSeq(Lines0, 1, a - 1)
                     \o Split(edits[i].new_content)
                     \o <<Lines0[a]>>
                     \o Split(edits[j].new_content)
                     \o SubSeq(Lines0, a + 1, Len(Lines0)))
====
